---- MODULE Spec2Model ----
(***************************************************************************)
(* Scene lifecycle and event routing of signal-to-noise: the SceneManager  *)
(* (src/src/scene_manager.rs), the drain loop of EventReceiver             *)
(* (src/src/sub_event_handler.rs), the main menu (src/src/main_menu.rs,    *)
(* src/src/ui_manager.rs) and the reveal state machine of the noise scene  *)
(* (src/src/noise.rs).                                                     *)
(*                                                                         *)
(* Representation of numbers.  Durations are integers (one unit is one     *)
(* clock step of the host).  Normalized coordinates are exact rationals    *)
(* <<n, d>> in lowest terms with d > 0.  A Euclidean distance is held as   *)
(* the exact rational of its square (the square root is not rational);    *)
(* signal_progression is held as the expression the code evaluates.       *)
(***************************************************************************)
EXTENDS Integers, Sequences, FiniteSets, TLC

VARIABLES
    args,          \* Shared.args: the immutable configuration
    scene,         \* SceneManager.scene: the one active scene
    queue,         \* contents of the mpsc channel event_sender -> event_receiver
    now,           \* ctx.time.time_since_start() at the latest tick
    status,        \* "running", "failed" (update returned Err), "quit"
    result,        \* what the latest SceneManager::update returned
    quit_result,   \* what the latest SceneManager::quit_event returned
    built,         \* number of scene instances constructed so far
    input,         \* the host input the latest tick has read
    sent,          \* history: every event sent on the channel, in order
    handled,       \* history: every event passed to handle_event, in order
    tick_scene,    \* events the active scene's update sent in the latest tick
    tick_mgr,      \* events the manager's Escape check sent in the latest tick
    tick_handled,  \* events passed to handle_event in the latest tick
    round_ended,   \* history: a left click ended the round and no reset followed
    fs,            \* the directories and files under Recorder.base_path
    tick_records,  \* the calls of Recorder::record made in the latest tick
    live,          \* the scene instances and the shaders that exist
    drawn,         \* the draw the host has called since the latest tick
    updated        \* history: update has been called on the active scene

vars == <<args, scene, queue, now, status, result, quit_result, built, input,
          sent, handled, tick_scene, tick_mgr, tick_handled, round_ended,
          fs, tick_records, live, drawn, updated>>

----------------------------------------------------------------------------
(* Bounds of the model *)

MaxTime == 2
MaxMenuTime == 1
MaxSent == 2
MaxRows == 2
MaxRecordTime == 1

(* Values the host and the configuration are drawn from *)

ClockSteps == {0, 1}
Resolutions == {<<800, 600>>, <<400, 300>>}
MousePoints == {<<200, 135>>, <<400, 270>>, <<400, 330>>}
ClickPoints == {<<200, 135>>, <<400, 270>>}
StartingScenes == {"MainMenu", "Noise1D", "Noise2D"}

(* the configurations: every pair of noise_floor and noise_deviation in    *)
(* {0, 1}, frame_time 1 and 2, signal_ramp_duration 0 and 2                 *)
Tunings ==
    {[noise_floor |-> 0, noise_deviation |-> 0, frame_time |-> 1,
      signal_ramp_duration |-> 0, signal_max_strength |-> 1],
     [noise_floor |-> 0, noise_deviation |-> 1, frame_time |-> 2,
      signal_ramp_duration |-> 2, signal_max_strength |-> 1],
     [noise_floor |-> 1, noise_deviation |-> 0, frame_time |-> 1,
      signal_ramp_duration |-> 2, signal_max_strength |-> 1],
     [noise_floor |-> 1, noise_deviation |-> 1, frame_time |-> 2,
      signal_ramp_duration |-> 0, signal_max_strength |-> 1]}
Args ==
    {[noise_floor |-> c.noise_floor, noise_deviation |-> c.noise_deviation,
      frame_time |-> c.frame_time,
      signal_ramp_duration |-> c.signal_ramp_duration,
      signal_max_strength |-> c.signal_max_strength,
      starting_scene |-> k] : c \in Tunings, k \in StartingScenes}

----------------------------------------------------------------------------
(* Exact rationals *)

Abs(n) == IF n < 0 THEN -n ELSE n

RECURSIVE GCD(_, _)
GCD(a, b) == IF b = 0 THEN a ELSE GCD(b, a % b)

Rat(n, d) ==
    LET g == GCD(Abs(n), d) IN <<n \div g, d \div g>>

RSub(a, b) == Rat(a[1] * b[2] - b[1] * a[2], a[2] * b[2])
RAdd(a, b) == Rat(a[1] * b[2] + b[1] * a[2], a[2] * b[2])
RMul(a, b) == Rat(a[1] * b[1], a[2] * b[2])

RatZero == Rat(0, 1)
Vec2Zero == [x |-> RatZero, y |-> RatZero]

(* rand::random::<f32>() is uniform over [0, 1) *)
RandomVec2 == {[x |-> Rat(0, 1), y |-> Rat(0, 1)],
               [x |-> Rat(1, 2), y |-> Rat(1, 2)]}

(* location / res, componentwise *)
VecDiv(p, res) == [x |-> Rat(p[1], res[1]), y |-> Rat(p[2], res[2])]

(* glam Vec2::distance, as the square of its value *)
distance(a, b) ==
    LET dx == RSub(a.x, b.x)
        dy == RSub(a.y, b.y)
    IN  RAdd(RMul(dx, dx), RMul(dy, dy))

----------------------------------------------------------------------------
(* Events and scenes *)

SceneManagerEvent == {"MainMenu", "Noise2D", "Noise1D"}

None == [some |-> FALSE]
Some(v) == [some |-> TRUE, value |-> v]

OneDimensional == 1
TwoDimensional == 2

(* inv_exp(num / den), kept as the expression *)
inv_exp(num, den) == <<"inv_exp", num, den>>
Const(c) == <<"const", c, 1>>

(* signal_progression * signal_max_strength, kept as the expression *)
Strength(progression, max_strength) == <<progression, max_strength>>

(* a reset that leaves the ClickDecision in place *)
reset_keep_click(params, t, rnd) ==
    [params EXCEPT !.start_time = t,
                   !.signal_origin = rnd]

(* a reset that leaves the start time of the previous round in place *)
reset_keep_start(params, t, rnd) ==
    [params EXCEPT !.signal_origin = rnd,
                   !.click_location = None]

(* GameParams::reset *)
reset(params, t, rnd) ==
    [params EXCEPT !.start_time = t,
                   !.signal_origin = rnd,
                   !.click_location = None]

(* a constructor that leaves the noise uniforms at their defaults *)
NoiseNewDefaultNoise(mode, t, rnd, id) ==
    [kind |-> "Noise",
     id |-> id,
     mode |-> mode,
     uniforms |->
        [resolution |-> <<0, 0>>,
         signal_origin |-> Vec2Zero,
         signal_strength |-> Strength(Const(0), 0),
         noise_seed |-> 0,
         noise_floor |-> 0,
         noise_deviation |-> 0,
         dimensions |-> mode],
     params |->
        reset([start_time |-> 0,
               time |-> 0,
               noise_frame |-> 0,
               frame_length |-> args.frame_time,
               signal_progression |-> Const(0),
               signal_origin |-> Vec2Zero,
               signal_ramp_duration |-> args.signal_ramp_duration,
               signal_max_strength |-> args.signal_max_strength,
               click_location |-> None], t, rnd)]

(* Noise::new; the shader build decides whether the scene exists *)
NoiseNew(mode, t, rnd, id) ==
    [kind |-> "Noise",
     id |-> id,
     mode |-> mode,
     uniforms |->
        [resolution |-> <<0, 0>>,
         signal_origin |-> Vec2Zero,
         signal_strength |-> Strength(Const(0), 0),
         noise_seed |-> 0,
         noise_floor |-> args.noise_floor,
         noise_deviation |-> args.noise_deviation,
         dimensions |-> mode],
     params |->
        reset([start_time |-> 0,
               time |-> 0,
               noise_frame |-> 0,
               frame_length |-> args.frame_time,
               signal_progression |-> Const(0),
               signal_origin |-> Vec2Zero,
               signal_ramp_duration |-> args.signal_ramp_duration,
               signal_max_strength |-> args.signal_max_strength,
               click_location |-> None], t, rnd)]

(* MainMenu::new *)
MainMenuNew(id) == [kind |-> "MainMenu", id |-> id]

----------------------------------------------------------------------------
(* Main menu: two buttons, each bound to an event (MainMenu::new) *)

(* a menu whose second button lies over the first *)
ButtonsOverlapping ==
    << [relative |-> <<Rat(1, 2), Rat(1, 2), Rat(0, 1), Rat(0, 1)>>,
        absolute |-> <<-80, -50, 160, 40>>,
        event |-> "Noise2D",
        state |-> "Enabled"],
       [relative |-> <<Rat(1, 2), Rat(1, 2), Rat(0, 1), Rat(0, 1)>>,
        absolute |-> <<-80, -40, 160, 40>>,
        event |-> "Noise1D",
        state |-> "Enabled"] >>

(* the two buttons MainMenu::new adds, in the order added *)
Buttons ==
    << [relative |-> <<Rat(1, 2), Rat(1, 2), Rat(0, 1), Rat(0, 1)>>,
        absolute |-> <<-80, -50, 160, 40>>,
        event |-> "Noise2D",
        state |-> "Enabled"],
       [relative |-> <<Rat(1, 2), Rat(1, 2), Rat(0, 1), Rat(0, 1)>>,
        absolute |-> <<-80, 10, 160, 40>>,
        event |-> "Noise1D",
        state |-> "Enabled"] >>

(* relative * res, for the resolutions of the model an exact integer *)
Scale(r, n) == (r[1] * n) \div r[2]

(* Bounds::corrected_bounds: <<x, y, w, h>> in pixels *)
corrected_bounds(b, res) ==
    << Scale(b.relative[1], res[1]) + b.absolute[1],
       Scale(b.relative[2], res[2]) + b.absolute[2],
       Scale(b.relative[3], res[1]) + b.absolute[3],
       Scale(b.relative[4], res[2]) + b.absolute[4] >>

(* ggez Rect::contains: the edges belong to the rectangle *)
contains(rect, p) ==
    /\ p[1] >= rect[1]
    /\ p[1] <= rect[1] + rect[3]
    /\ p[2] >= rect[2]
    /\ p[2] <= rect[2] + rect[4]

(* an update whose buttons fire on a release anywhere in the window *)
RECURSIVE UIManagerUpdateAnywhere(_, _)
UIManagerUpdateAnywhere(elements, in) ==
    IF elements = <<>> THEN <<>>
    ELSE LET button == Head(elements)
             fires == /\ button.state = "Enabled"
                      /\ in.released
         IN  (IF fires THEN <<button.event>> ELSE <<>>)
                 \o UIManagerUpdateAnywhere(Tail(elements), in)

(* UIManager::update over the elements in order: the events it sends *)
RECURSIVE UIManagerUpdate(_, _)
UIManagerUpdate(elements, in) ==
    IF elements = <<>> THEN <<>>
    ELSE LET button == Head(elements)
             fires == /\ button.state = "Enabled"
                      /\ contains(corrected_bounds(button, in.res), in.pos)
                      /\ in.released
         IN  (IF fires THEN <<button.event>> ELSE <<>>)
                 \o UIManagerUpdate(Tail(elements), in)

(* MainMenu::update *)
MainMenuUpdate(in) == UIManagerUpdate(Buttons, in)

----------------------------------------------------------------------------
(* Recorder *)

(* what the file system answers to one call of record_inner: all is well,  *)
(* create_dir_all fails, the open fails, or the write or the flush fails   *)
IoOutcomes == {"ok", "mkdir_err", "open_err", "write_err"}

(* nothing under base_path *)
NoFiles == [dirs |-> {}, files |-> <<>>]

(* the rows of the file at path, none when the file is absent *)
RowsAt(disk, path) ==
    IF path \in DOMAIN disk.files THEN disk.files[path] ELSE <<>>

(* the file at path holds rows *)
WriteFile(disk, path, rows) ==
    [disk EXCEPT !.files = [f \in DOMAIN disk.files \cup {path} |->
                               IF f = path THEN rows ELSE disk.files[f]]]

(* a record_inner that opens the file with truncate for append *)
record_inner_truncate(disk, game_name, configuration, row, io) ==
    LET path == <<game_name, configuration>>
        made == IF io = "mkdir_err" THEN disk
                ELSE [disk EXCEPT !.dirs = @ \cup {game_name}]
    IN  IF game_name \notin made.dirs \/ io = "open_err"
        THEN [disk |-> made, ok |-> FALSE]
        ELSE IF io = "write_err"
             THEN [disk |-> WriteFile(made, path, <<>>), ok |-> FALSE]
             ELSE [disk |-> WriteFile(made, path, <<row>>), ok |-> TRUE]

(* Recorder::record_inner: create_dir_all with its result dropped, open    *)
(* with append and create, serialize one row, flush; a write that fails    *)
(* leaves no row                                                           *)
record_inner(disk, game_name, configuration, row, io) ==
    LET path == <<game_name, configuration>>
        made == IF io = "mkdir_err" THEN disk
                ELSE [disk EXCEPT !.dirs = @ \cup {game_name}]
    IN  IF game_name \notin made.dirs \/ io = "open_err"
        THEN [disk |-> made, ok |-> FALSE]
        ELSE IF io = "write_err"
             THEN [disk |-> WriteFile(made, path, RowsAt(made, path)),
                   ok |-> FALSE]
             ELSE [disk |-> WriteFile(made, path,
                                      Append(RowsAt(made, path), row)),
                   ok |-> TRUE]

(* a record that unwraps the result of record_inner *)
record_unwrap(disk, call, io) ==
    LET r == record_inner(disk, call.game_name, call.configuration,
                          call.row, io)
    IN  [disk |-> r.disk, returned |-> r.ok]

(* Recorder::record: the error is logged and dropped, the call returns *)
record(disk, call, io) ==
    LET r == record_inner(disk, call.game_name, call.configuration,
                          call.row, io)
    IN  [disk |-> r.disk, returned |-> TRUE]

(* the calls of one tick in order, up to the first that does not return *)
RECURSIVE RecordAll(_, _, _)
RecordAll(disk, calls, io) ==
    IF calls = <<>> THEN [disk |-> disk, returned |-> TRUE]
    ELSE LET r == record(disk, Head(calls), io)
         IN  IF r.returned THEN RecordAll(r.disk, Tail(calls), io) ELSE r

----------------------------------------------------------------------------
(* Noise::update *)

(* the first path component of the key the noise scene records under *)
GameName(mode) == IF mode = OneDimensional THEN "noise_1d" ELSE "noise_2d"

(* the rest of the key: the configuration values in the order formatted *)
Fingerprint(a) ==
    <<a.noise_floor, a.noise_deviation, a.frame_time,
      a.signal_ramp_duration, a.signal_max_strength>>

(* a reset that leaves the noise uniforms at zero *)
ResetRoundNoRestore(sc, in, t) ==
    [sc EXCEPT !.params = reset(@, t, in.rnd)]

(* the Resolved branch on a reset trigger *)
ResetRound(sc, in, t) ==
    [sc EXCEPT !.params = reset(@, t, in.rnd),
               !.uniforms.noise_floor = args.noise_floor,
               !.uniforms.noise_deviation = args.noise_deviation]

(* f32 values that are not finite, as integers no frame index reaches *)
Infinity == 1000000
NaN == -1000000

(* (a / b).floor() in f32 for a dividend a >= 0; x / 0.0 is +inf and       *)
(* 0.0 / 0.0 is NaN                                                        *)
FloorDiv(a, b) ==
    IF b > 0 THEN a \div b
    ELSE IF b < 0 THEN -((a + (-b) - 1) \div (-b))
    ELSE IF a = 0 THEN NaN ELSE Infinity

(* f32 "!=": NaN differs from every value, itself included *)
FNe(a, b) == a = NaN \/ b = NaN \/ a # b

(* noise_frame * frame_length in f32; the frame is not finite only when    *)
(* frame_length is 0, and inf * 0.0 is NaN as NaN * 0.0 is                 *)
FMul(frame, length) ==
    IF frame = NaN \/ frame = Infinity THEN NaN ELSE frame * length

(* a frame advance that rounds the quotient up *)
AdvanceFrameCeil(params) ==
    LET new_noise_frame ==
            FloorDiv(params.time + params.frame_length - 1, params.frame_length)
    IN  IF FNe(new_noise_frame, params.noise_frame)
        THEN [params EXCEPT
                !.noise_frame = new_noise_frame,
                !.signal_progression =
                    IF params.signal_ramp_duration > 0
                    THEN inv_exp(FMul(new_noise_frame, params.frame_length),
                                 params.signal_ramp_duration
                                     * params.signal_max_strength)
                    ELSE Const(1)]
        ELSE params

(* a frame advance that evaluates the quotient whatever the ramp is *)
AdvanceFrameUnguarded(params) ==
    LET new_noise_frame == FloorDiv(params.time, params.frame_length)
    IN  IF FNe(new_noise_frame, params.noise_frame)
        THEN [params EXCEPT
                !.noise_frame = new_noise_frame,
                !.signal_progression =
                    inv_exp(FMul(new_noise_frame, params.frame_length),
                            params.signal_ramp_duration
                                * params.signal_max_strength)]
        ELSE params

(* the Searching branch: the discretized frame and the progression *)
AdvanceFrame(params) ==
    LET new_noise_frame == FloorDiv(params.time, params.frame_length)
    IN  IF FNe(new_noise_frame, params.noise_frame)
        THEN [params EXCEPT
                !.noise_frame = new_noise_frame,
                !.signal_progression =
                    IF params.signal_ramp_duration > 0
                    THEN inv_exp(FMul(new_noise_frame, params.frame_length),
                                 params.signal_ramp_duration
                                     * params.signal_max_strength)
                    ELSE Const(1)]
        ELSE params

(* a click that stores the pointer position in pixels *)
RegisterClickPixels(sc, in) ==
    LET location == VecDiv(in.pos, <<1, 1>>)
    IN  [sc EXCEPT
            !.params.click_location =
                Some([location |-> location,
                      distance |-> distance(sc.params.signal_origin, location),
                      time |-> sc.params.time]),
            !.uniforms.noise_floor = 0,
            !.uniforms.noise_deviation = 0]

(* a click that measures the distance in pixels, before normalizing *)
RegisterClickPixelDistance(sc, in) ==
    LET location == VecDiv(in.pos, in.res)
        origin == [x |-> RMul(sc.params.signal_origin.x, Rat(in.res[1], 1)),
                   y |-> RMul(sc.params.signal_origin.y, Rat(in.res[2], 1))]
    IN  [sc EXCEPT
            !.params.click_location =
                Some([location |-> location,
                      distance |-> distance(origin, VecDiv(in.pos, <<1, 1>>)),
                      time |-> sc.params.time]),
            !.uniforms.noise_floor = 0,
            !.uniforms.noise_deviation = 0]

(* the Searching branch on a left click *)
RegisterClick(sc, in) ==
    LET location == VecDiv(in.pos, in.res)
    IN  [sc EXCEPT
            !.params.click_location =
                Some([location |-> location,
                      distance |-> distance(sc.params.signal_origin, location),
                      time |-> sc.params.time]),
            !.uniforms.noise_floor = 0,
            !.uniforms.noise_deviation = 0]

(* the tail of the Searching branch *)
MirrorUniforms(sc) ==
    [sc EXCEPT
        !.uniforms.signal_origin = sc.params.signal_origin,
        !.uniforms.noise_seed = sc.params.noise_frame,
        !.uniforms.signal_strength =
            Strength(sc.params.signal_progression,
                     sc.params.signal_max_strength)]

(* a click that is not recorded *)
RecordClickMissing(sc) == <<>>

(* a click recorded under a key that carries the time of the click *)
RecordClickTimedKey(sc) ==
    << [game_name |-> GameName(sc.mode),
        configuration |-> Append(Fingerprint(args),
                                 sc.params.click_location.value.time),
        row |-> [distance |-> sc.params.click_location.value.distance,
                 time |-> sc.params.click_location.value.time,
                 strength |-> Strength(sc.params.signal_progression,
                                       sc.params.signal_max_strength)]] >>

(* the call of record of the left-click branch, for a scene whose click    *)
(* is registered                                                           *)
RecordClick(sc) ==
    << [game_name |-> GameName(sc.mode),
        configuration |-> Fingerprint(args),
        row |-> [distance |-> sc.params.click_location.value.distance,
                 time |-> sc.params.click_location.value.time,
                 strength |-> Strength(sc.params.signal_progression,
                                       sc.params.signal_max_strength)]] >>

(* an update that obeys the reset triggers in either state *)
NoiseUpdateResetAnytime(sc, in, t) ==
    LET s0 == [sc EXCEPT !.params.time = t - sc.params.start_time,
                         !.uniforms.resolution = in.res]
    IN  IF in.space \/ in.right
        THEN [scene |-> ResetRound(s0, in, t), records |-> <<>>]
        ELSE IF s0.params.click_location.some
        THEN [scene |-> s0, records |-> <<>>]
        ELSE LET s1 == [s0 EXCEPT !.params = AdvanceFrame(@)]
                 s2 == IF in.left THEN RegisterClick(s1, in) ELSE s1
             IN  [scene |-> MirrorUniforms(s2),
                  records |-> IF in.left THEN RecordClick(s2) ELSE <<>>]

(* an update that registers a left click while Resolved as well *)
NoiseUpdateReclick(sc, in, t) ==
    LET s0 == [sc EXCEPT !.params.time = t - sc.params.start_time,
                         !.uniforms.resolution = in.res]
    IN  IF s0.params.click_location.some /\ ~in.left
        THEN [scene |-> IF in.space \/ in.right THEN ResetRound(s0, in, t)
                        ELSE s0,
              records |-> <<>>]
        ELSE LET s1 == [s0 EXCEPT !.params = AdvanceFrame(@)]
                 s2 == IF in.left THEN RegisterClick(s1, in) ELSE s1
             IN  [scene |-> MirrorUniforms(s2),
                  records |-> IF in.left THEN RecordClick(s2) ELSE <<>>]

(* the scene Noise::update leaves and the calls of record it makes *)
NoiseUpdate(sc, in, t) ==
    LET s0 == [sc EXCEPT !.params.time = t - sc.params.start_time,
                         !.uniforms.resolution = in.res]
    IN  IF s0.params.click_location.some
        THEN [scene |-> IF in.space \/ in.right THEN ResetRound(s0, in, t)
                        ELSE s0,
              records |-> <<>>]
        ELSE LET s1 == [s0 EXCEPT !.params = AdvanceFrame(@)]
                 s2 == IF in.left THEN RegisterClick(s1, in) ELSE s1
             IN  [scene |-> MirrorUniforms(s2),
                  records |-> IF in.left THEN RecordClick(s2) ELSE <<>>]

(* the events the active scene's update sends, the calls of record it      *)
(* makes, and the scene it leaves                                          *)
SceneUpdate(sc, in, t) ==
    IF sc.kind = "MainMenu"
    THEN [scene |-> sc, sends |-> MainMenuUpdate(in), records |-> <<>>]
    ELSE LET up == NoiseUpdate(sc, in, t)
         IN  [scene |-> up.scene, sends |-> <<>>, records |-> up.records]

----------------------------------------------------------------------------
(* SceneManager *)

(* a noise scene that refuses to quit while a round is open *)
SceneQuitEventNoise(sc) == sc.kind = "Noise"

(* SubEventHandler::quit_event, the default no scene overrides *)
SceneQuitEvent(sc) == FALSE

(* the shader and the uniform buffer a scene owns: the ShaderScene of a   *)
(* noise scene; the menu owns none                                         *)
Gpu(sc) == IF sc.kind = "Noise" THEN {sc.id} ELSE {}

(* the instances that exist once SceneManager::new has stored its scene *)
Owned(sc) == [scenes |-> {sc.id}, shaders |-> Gpu(sc)]

(* "self.scene = Box::new(new)": the new box is stored and the box that    *)
(* was there is dropped, and with it all that the old scene owns           *)
Assign(existing, old, new) ==
    [scenes |-> (existing.scenes \cup {new.id}) \ {old.id},
     shaders |-> (existing.shaders \cup Gpu(new)) \ Gpu(old)]

(* The channel of scene switches.  The manager holds the receiver and a    *)
(* sender, and a main menu holds a clone of the sender in its UIManager;   *)
(* the holders are named by 0 for the manager and by the id of a scene.    *)

(* the holders of the receiver while the manager exists *)
Receivers == {0}

(* a manager that gives its sender to the menu and keeps none *)
SendersMenuOnly(sc) == IF sc.kind = "MainMenu" THEN {sc.id} ELSE {}

(* the holders of a sender while sc is the active scene *)
Senders(sc) == {0} \cup (IF sc.kind = "MainMenu" THEN {sc.id} ELSE {})

(* Sender::send(..).unwrap(): an error, and the panic, only when no        *)
(* receiver is left                                                        *)
send(receivers) == receivers # {}

(* ReceiverExt::poll_event: try_recv yields a queued event, Empty while a  *)
(* sender is left, and the disconnect error on an empty channel without    *)
(* senders                                                                 *)
poll_event(q, senders) ==
    IF q # <<>> THEN [ok |-> TRUE, some |-> TRUE, event |-> Head(q)]
    ELSE IF senders # {} THEN [ok |-> TRUE, some |-> FALSE, event |-> "none"]
    ELSE [ok |-> FALSE, some |-> FALSE, event |-> "none"]

(* a handle_event that keeps the active scene when it is of the kind the   *)
(* event names                                                             *)
handle_event_keep_kind(sc, event, c) ==
    IF (IF sc.kind = "MainMenu" THEN "MainMenu"
        ELSE IF sc.mode = OneDimensional THEN "Noise1D" ELSE "Noise2D") = event
    THEN [ok |-> TRUE, scene |-> sc, live |-> c.live]
    ELSE IF event = "MainMenu"
    THEN [ok |-> TRUE, scene |-> MainMenuNew(c.built + 1),
          live |-> Assign(c.live, sc, MainMenuNew(c.built + 1))]
    ELSE IF c.shader_ok
         THEN LET made == NoiseNew(IF event = "Noise1D" THEN OneDimensional
                                   ELSE TwoDimensional,
                                   c.t, c.rnd, c.built + 1)
              IN  [ok |-> TRUE, scene |-> made,
                   live |-> Assign(c.live, sc, made)]
         ELSE [ok |-> FALSE, scene |-> sc, live |-> c.live]

(* a handle_event that keeps the scene it replaces alive *)
handle_event_leak(sc, event, c) ==
    LET made == IF event = "MainMenu" THEN MainMenuNew(c.built + 1)
                ELSE NoiseNew(IF event = "Noise1D" THEN OneDimensional
                              ELSE TwoDimensional,
                              c.t, c.rnd, c.built + 1)
    IN  IF event = "MainMenu" \/ c.shader_ok
        THEN [ok |-> TRUE, scene |-> made,
              live |-> [scenes |-> c.live.scenes \cup {made.id},
                        shaders |-> c.live.shaders \cup Gpu(made)]]
        ELSE [ok |-> FALSE, scene |-> sc, live |-> c.live]

(* a handle_event whose noise arms build the other mode *)
handle_event_swapped(sc, event, c) ==
    LET made == IF event = "MainMenu" THEN MainMenuNew(c.built + 1)
                ELSE NoiseNew(IF event = "Noise1D" THEN TwoDimensional
                              ELSE OneDimensional,
                              c.t, c.rnd, c.built + 1)
    IN  IF event = "MainMenu" \/ c.shader_ok
        THEN [ok |-> TRUE, scene |-> made,
              live |-> Assign(c.live, sc, made)]
        ELSE [ok |-> FALSE, scene |-> sc, live |-> c.live]

(* SceneManager::handle_event; c carries what the construction reads from  *)
(* the context: the clock, the random source, the outcome of the shader    *)
(* build, the number of scenes built so far, and the instances that exist; *)
(* a noise scene whose shader build fails is never made                    *)
handle_event(sc, event, c) ==
    IF event = "MainMenu"
    THEN [ok |-> TRUE, scene |-> MainMenuNew(c.built + 1),
          live |-> Assign(c.live, sc, MainMenuNew(c.built + 1))]
    ELSE IF c.shader_ok
         THEN LET made == NoiseNew(IF event = "Noise1D" THEN OneDimensional
                                   ELSE TwoDimensional,
                                   c.t, c.rnd, c.built + 1)
              IN  [ok |-> TRUE, scene |-> made,
                   live |-> Assign(c.live, sc, made)]
         ELSE [ok |-> FALSE, scene |-> sc, live |-> c.live]

(* a drain that puts the event whose handle_event fails back on the queue *)
RECURSIVE handle_events_requeue(_, _, _, _)
handle_events_requeue(q, sc, done, c) ==
    IF q = <<>>
    THEN [queue |-> q, scene |-> sc, handled |-> done, built |-> c.built,
          live |-> c.live, result |-> "Ok"]
    ELSE LET r == handle_event(sc, Head(q), c)
         IN  IF r.ok
             THEN handle_events_requeue(Tail(q), r.scene,
                                        Append(done, Head(q)),
                                        [c EXCEPT !.built = @ + 1,
                                                  !.live = r.live])
             ELSE [queue |-> q, scene |-> sc,
                   handled |-> Append(done, Head(q)), built |-> c.built,
                   live |-> c.live, result |-> "Err"]

(* a drain that handles one event per tick ("if let" for "while let") *)
handle_events_once(q, sc, done, c) ==
    IF q = <<>>
    THEN [queue |-> q, scene |-> sc, handled |-> done, built |-> c.built,
          live |-> c.live, result |-> "Ok"]
    ELSE LET r == handle_event(sc, Head(q), c)
         IN  IF r.ok
             THEN [queue |-> Tail(q), scene |-> r.scene,
                   handled |-> Append(done, Head(q)), built |-> c.built + 1,
                   live |-> r.live, result |-> "Ok"]
             ELSE [queue |-> Tail(q), scene |-> sc,
                   handled |-> Append(done, Head(q)), built |-> c.built,
                   live |-> c.live, result |-> "Err"]

(* a drain that coalesces the queue to its last event *)
handle_events_last(q, sc, done, c) ==
    IF q = <<>>
    THEN [queue |-> q, scene |-> sc, handled |-> done, built |-> c.built,
          live |-> c.live, result |-> "Ok"]
    ELSE LET event == q[Len(q)]
             r == handle_event(sc, event, c)
         IN  IF r.ok
             THEN [queue |-> <<>>, scene |-> r.scene,
                   handled |-> Append(done, event), built |-> c.built + 1,
                   live |-> r.live, result |-> "Ok"]
             ELSE [queue |-> <<>>, scene |-> sc,
                   handled |-> Append(done, event), built |-> c.built,
                   live |-> c.live, result |-> "Err"]

(* a drain that logs a failed handle_event and goes on with the next event *)
RECURSIVE handle_events_skip(_, _, _, _)
handle_events_skip(q, sc, done, c) ==
    IF q = <<>>
    THEN [queue |-> q, scene |-> sc, handled |-> done, built |-> c.built,
          live |-> c.live, result |-> "Ok"]
    ELSE LET r == handle_event(sc, Head(q), c)
         IN  IF r.ok
             THEN handle_events_skip(Tail(q), r.scene, Append(done, Head(q)),
                                     [c EXCEPT !.built = @ + 1,
                                               !.live = r.live])
             ELSE handle_events_skip(Tail(q), sc, Append(done, Head(q)), c)

(* EventReceiver::handle_events over ReceiverExt::poll_event: receive and  *)
(* handle until the channel is empty, a poll fails or a handle_event fails *)
RECURSIVE handle_events(_, _, _, _)
handle_events(q, sc, done, c) ==
    LET polled == poll_event(q, Senders(sc))
    IN  IF ~polled.ok
        THEN [queue |-> q, scene |-> sc, handled |-> done,
              built |-> c.built, live |-> c.live,
              result |-> "Disconnected"]
        ELSE IF ~polled.some
        THEN [queue |-> q, scene |-> sc, handled |-> done,
              built |-> c.built, live |-> c.live, result |-> "Ok"]
        ELSE LET r == handle_event(sc, polled.event, c)
             IN  IF r.ok
                 THEN handle_events(Tail(q), r.scene,
                                    Append(done, polled.event),
                                    [c EXCEPT !.built = @ + 1,
                                              !.live = r.live])
                 ELSE [queue |-> Tail(q), scene |-> sc,
                       handled |-> Append(done, polled.event),
                       built |-> c.built, live |-> c.live,
                       result |-> "Err"]

(* an update without the Escape shortcut *)
EscapeCheckMissing(in) == <<>>

(* the Escape check of SceneManager::update *)
EscapeCheck(in) == IF in.escape THEN <<"MainMenu">> ELSE <<>>

(* the round as the inputs define it: ended by a left click while it runs, *)
(* reopened by space or a right click while it is ended                    *)
RoundAfter(ended, in) ==
    IF ended THEN ~(in.space \/ in.right) ELSE in.left

(* quit_event has not been called since the latest tick *)
NotCalled == [called |-> FALSE, escape_pressed |-> FALSE, returned |-> FALSE]

----------------------------------------------------------------------------
(* Drawing: the canvas holds its active shader and the items drawn on it,  *)
(* each with the shader it was drawn under.  A draw makes fallible calls;  *)
(* fail names the one that returns an error, "none" when all succeed.      *)

(* Canvas::from_frame *)
NewCanvas == [shader |-> "default", items |-> <<>>]

(* .draw(canvas) of a mesh or a text *)
Put(canvas, what) ==
    [canvas EXCEPT !.items = Append(@, [what |-> what,
                                        shader |-> canvas.shader])]

(* ShaderScene::draw: the full-screen rectangle under the scene's shader;  *)
(* "?" on the rectangle returns before set_default_shader                  *)
ShaderSceneDraw(canvas, fail) ==
    LET set == [canvas EXCEPT !.shader = "scene"]
    IN  IF fail = "rectangle"
        THEN [ok |-> FALSE, canvas |-> set]
        ELSE [ok |-> TRUE,
              canvas |-> [Put(set, "rectangle") EXCEPT !.shader = "default"]]

(* the lines of the click indicator: in 1D the tick at the click, the line *)
(* at the signal center and the connector; in 2D the connector             *)
Indicator(mode) ==
    IF mode = OneDimensional THEN <<"click_tick", "center_line", "connector">>
    ELSE <<"connector">>

(* Mesh::new_line(...)?.draw(canvas), one line after the other *)
RECURSIVE DrawLines(_, _, _)
DrawLines(canvas, lines, fail) ==
    IF lines = <<>> THEN [ok |-> TRUE, canvas |-> canvas]
    ELSE IF fail = Head(lines) THEN [ok |-> FALSE, canvas |-> canvas]
    ELSE DrawLines(Put(canvas, Head(lines)), Tail(lines), fail)

(* a draw of the noise scene that overlays the indicator in every state *)
NoiseDrawAlwaysOverlay(sc, canvas, fail) ==
    LET field == ShaderSceneDraw(canvas, fail)
    IN  IF ~field.ok THEN field
        ELSE LET lines == DrawLines(field.canvas, Indicator(sc.mode), fail)
             IN  IF ~lines.ok THEN lines
                 ELSE IF fail = "readout"
                 THEN [ok |-> FALSE, canvas |-> lines.canvas]
                 ELSE [ok |-> TRUE, canvas |-> Put(lines.canvas, "readout")]

(* Noise::draw *)
NoiseDraw(sc, canvas, fail) ==
    LET field == ShaderSceneDraw(canvas, fail)
    IN  IF ~field.ok THEN field
        ELSE IF sc.params.click_location.some
        THEN LET lines == DrawLines(field.canvas, Indicator(sc.mode), fail)
             IN  IF ~lines.ok THEN lines
                 ELSE IF fail = "readout"
                 THEN [ok |-> FALSE, canvas |-> lines.canvas]
                 ELSE [ok |-> TRUE, canvas |-> Put(lines.canvas, "readout")]
        ELSE field

(* UIManager::draw: of every button that is not invisible the rounded      *)
(* rectangle and the label                                                 *)
RECURSIVE UIManagerDraw(_, _, _)
UIManagerDraw(elements, canvas, fail) ==
    IF elements = <<>> THEN [ok |-> TRUE, canvas |-> canvas]
    ELSE IF Head(elements).state = "Invisible"
    THEN UIManagerDraw(Tail(elements), canvas, fail)
    ELSE IF fail = "button" THEN [ok |-> FALSE, canvas |-> canvas]
    ELSE IF fail = "label"
    THEN [ok |-> FALSE, canvas |-> Put(canvas, "button")]
    ELSE UIManagerDraw(Tail(elements), Put(Put(canvas, "button"), "label"),
                       fail)

(* MainMenu::draw *)
MainMenuDraw(canvas, fail) == UIManagerDraw(Buttons, canvas, fail)

(* the draw of the active scene, by dynamic dispatch *)
SceneDraw(sc, canvas, fail) ==
    IF sc.kind = "MainMenu" THEN MainMenuDraw(canvas, fail)
    ELSE NoiseDraw(sc, canvas, fail)

(* a manager that goes on drawing the scene it was constructed with *)
SceneManagerDrawFirst(sc, canvas, fail) ==
    LET r == SceneDraw(sc, canvas, fail)
    IN  [ok |-> r.ok, canvas |-> r.canvas, by |-> 1]

(* SceneManager::draw: self.scene.draw(ctx, canvas) *)
SceneManagerDraw(sc, canvas, fail) ==
    LET r == SceneDraw(sc, canvas, fail)
    IN  [ok |-> r.ok, canvas |-> r.canvas, by |-> sc.id]

(* EventHandlerWrapper::draw: a canvas of the frame, the draw of the       *)
(* manager, and the finish that presents the canvas                        *)
WrapperDraw(sc, fail) ==
    LET r == SceneManagerDraw(sc, NewCanvas, fail)
    IN  [called |-> TRUE, by |-> r.by, canvas |-> r.canvas,
         result |-> IF r.ok /\ fail # "finish" THEN "Ok" ELSE "Err"]

(* the calls of the draw of scene sc that can fail *)
Fallible(sc) ==
    IF sc.kind = "MainMenu" THEN {"button", "label", "finish"}
    ELSE {"rectangle", "finish"}
            \cup (IF sc.params.click_location.some
                  THEN {Indicator(sc.mode)[i] :
                            i \in 1..Len(Indicator(sc.mode))}
                            \cup {"readout"}
                  ELSE {})

(* draw has not been called since the latest tick *)
NotDrawn ==
    [called |-> FALSE, by |-> 0, canvas |-> NewCanvas, result |-> "None"]

----------------------------------------------------------------------------
(* SceneManager::update on the input in, with the clock at t *)
Tick(in, t) ==
    \E up \in {SceneUpdate(scene, in, t)}, mgr \in {EscapeCheck(in)} :
    \E dr \in {IF up.sends \o mgr = <<>> \/ send(Receivers)
                THEN handle_events(queue \o up.sends \o mgr, up.scene, <<>>,
                                   [t |-> t, rnd |-> in.rnd,
                                    shader_ok |-> in.shader_ok,
                                    built |-> built, live |-> live])
                ELSE [queue |-> queue, scene |-> up.scene, handled |-> <<>>,
                      built |-> built, live |-> live, result |-> "Panic"]},
       rec \in {RecordAll(fs, up.records, in.io)} :
        /\ scene' = dr.scene
        /\ queue' = dr.queue
        /\ built' = dr.built
        /\ live' = dr.live
        /\ fs' = rec.disk
        /\ tick_records' = up.records
        /\ result' = IF rec.returned THEN dr.result ELSE "Panic"
        /\ status' = IF rec.returned /\ dr.result = "Ok" THEN "running"
                      ELSE "failed"
        /\ now' = t
        /\ input' = in
        /\ sent' = sent \o up.sends \o mgr
        /\ handled' = handled \o dr.handled
        /\ tick_scene' = up.sends
        /\ tick_mgr' = mgr
        /\ tick_handled' = dr.handled
        /\ round_ended' = IF dr.scene.id # scene.id \/ dr.scene.kind # "Noise"
                          THEN FALSE
                          ELSE RoundAfter(round_ended, in)
        /\ quit_result' = NotCalled
        /\ drawn' = NotDrawn
        /\ updated' = (dr.scene.id = scene.id)
        /\ UNCHANGED args

(* the host input before the first tick *)
NoInput ==
    [res |-> <<800, 600>>, pos |-> <<0, 0>>, left |-> FALSE, right |-> FALSE,
     space |-> FALSE, released |-> FALSE, escape |-> FALSE,
     rnd |-> Vec2Zero, shader_ok |-> TRUE, io |-> "ok"]

(* the file the noise scene sc records to holds all the rows the disk has  *)
(* room for                                                                *)
DiskFull(sc) ==
    Len(RowsAt(fs, <<GameName(sc.mode), Fingerprint(args)>>)) >= MaxRows

(* the answers the file system can give to the record of scene sc: no     *)
(* success on a full disk, and create_dir_all fails only on a directory    *)
(* that does not exist                                                     *)
CanAnswer(o, sc) ==
    /\ o = "ok" => ~DiskFull(sc)
    /\ o = "mkdir_err" => GameName(sc.mode) \notin fs.dirs

(* the host calls SceneManager::update once per display frame; E bounds   *)
(* the inputs the host supplies.  An input the tick does not read keeps    *)
(* one value: the buttons and keys of the other kind of scene, the pointer *)
(* without a click, the resolution of a menu without a click, the random   *)
(* source and the shader build without a reset or a construction, the file *)
(* system without a call of record.  The disk is full when the file the    *)
(* scene records to holds MaxRows rows.                                    *)
Update(E) ==
    /\ status = "running"
    /\ LET menu == scene.kind = "MainMenu"
           room == MaxSent - Len(sent)
       IN  \E dt \in ClockSteps,
              escape \in (IF room >= 1 THEN E.escape ELSE {FALSE}) :
           \E released \in (IF menu /\ room >= (IF escape THEN 2 ELSE 1)
                             THEN E.released ELSE {FALSE}),
              left \in (IF menu THEN {FALSE} ELSE E.left),
              right \in (IF menu THEN {FALSE} ELSE E.right),
              space \in (IF menu THEN {FALSE} ELSE E.space) :
           LET reads == \/ released
                        \/ (~menu /\ (space \/ right))
           IN  \E res \in (IF menu /\ ~released THEN {NoInput.res}
                           ELSE E.resolutions) :
               \E pos \in (IF released \/ left
                           THEN {p \in (IF menu THEN E.menu_points
                                        ELSE E.click_points) :
                                    p[1] <= res[1] /\ p[2] <= res[2]}
                           ELSE {NoInput.pos}),
                  rnd \in (IF reads THEN E.origins ELSE {Vec2Zero}),
                  shader_ok \in (IF released THEN BOOLEAN ELSE {TRUE}),
                  io \in (IF ~menu /\ left /\ ~scene.params.click_location.some
                          THEN {o \in E.io : CanAnswer(o, scene)}
                          ELSE {NoInput.io}) :
               /\ now + dt <= E.max_time
               /\ Tick([res |-> res, pos |-> pos, left |-> left,
                        right |-> right, space |-> space,
                        released |-> released, escape |-> escape,
                        rnd |-> rnd, shader_ok |-> shader_ok, io |-> io],
                       now + dt)

(* SceneManager::quit_event; the host stops when it returns Ok(false) *)
QuitEvent ==
    /\ status = "running"
    /\ \E escape_pressed \in BOOLEAN :
        LET returned == IF escape_pressed THEN TRUE ELSE SceneQuitEvent(scene)
        IN  /\ quit_result' = [called |-> TRUE,
                               escape_pressed |-> escape_pressed,
                               returned |-> returned]
            /\ status' = IF returned THEN "running" ELSE "quit"
    /\ UNCHANGED <<args, scene, queue, now, result, built, input, sent,
                   handled, tick_scene, tick_mgr, tick_handled, round_ended,
                   fs, tick_records, live, drawn, updated>>

(* the host calls draw once after an update that has returned Ok; an      *)
(* error ends the run                                                      *)
Draw ==
    /\ status = "running" /\ result = "Ok" /\ ~drawn.called
    /\ \E fail \in {"none"} \cup Fallible(scene) :
        \E d \in {WrapperDraw(scene, fail)} :
            /\ drawn' = d
            /\ status' = IF d.result = "Ok" THEN "running" ELSE "failed"
    /\ UNCHANGED <<args, scene, queue, now, result, quit_result, built,
                   input, sent, handled, tick_scene, tick_mgr, tick_handled,
                   round_ended, fs, tick_records, live, updated>>

(* SceneManager::new has returned Ok, under a configuration of Configs and *)
(* with the files of Disks under the record path                           *)
Construct(Configs, Disks) ==
    /\ args \in Configs
    /\ fs \in Disks
    /\ tick_records = <<>>
    /\ now = 0
    /\ \E rnd \in RandomVec2 :
        scene = IF args.starting_scene = "MainMenu" THEN MainMenuNew(1)
                ELSE NoiseNew(IF args.starting_scene = "Noise1D"
                              THEN OneDimensional ELSE TwoDimensional,
                              now, rnd, 1)
    /\ queue = <<>>
    /\ status = "running"
    /\ result = "None"
    /\ quit_result = NotCalled
    /\ built = 1
    /\ live = Owned(scene)
    /\ drawn = NotDrawn
    /\ updated = FALSE
    /\ input = NoInput
    /\ sent = <<>>
    /\ handled = <<>>
    /\ tick_scene = <<>>
    /\ tick_mgr = <<>>
    /\ tick_handled = <<>>
    /\ round_ended = FALSE

Init == Construct(Args, {NoFiles})

(* the host of the whole game: menu clicks, Escape, scene switches, and    *)
(* rounds played with the left button and the space key; the record path   *)
(* is not writable                                                         *)
Host ==
    [max_time |-> MaxMenuTime,
     menu_points |-> MousePoints, click_points |-> {<<200, 135>>},
     escape |-> BOOLEAN, released |-> BOOLEAN,
     left |-> BOOLEAN, right |-> {FALSE}, space |-> BOOLEAN,
     resolutions |-> Resolutions, origins |-> RandomVec2,
     io |-> {"mkdir_err"}]

HostTick == Update(Host)

Next == HostTick \/ QuitEvent

Spec == Init /\ [][Next]_vars

(* the host of one noise scene that is never left: every button and key   *)
(* the scene reads, over a longer time; the record path is not writable    *)
RoundHost ==
    [max_time |-> MaxTime,
     menu_points |-> {}, click_points |-> ClickPoints,
     escape |-> {FALSE}, released |-> {FALSE},
     left |-> BOOLEAN, right |-> BOOLEAN, space |-> BOOLEAN,
     resolutions |-> Resolutions, origins |-> RandomVec2,
     io |-> {"mkdir_err"}]

RoundTick == Update(RoundHost)

InitRound == Init /\ args.starting_scene # "MainMenu"

NextRound == RoundTick

SpecRound == InitRound /\ [][NextRound]_vars

(* the frame times the command line accepts: any f32, no range is enforced *)
FrameTimes == {-1, 0, 1}

FrameArgs ==
    {[noise_floor |-> 1, noise_deviation |-> 1, frame_time |-> f,
      signal_ramp_duration |-> r, signal_max_strength |-> 1,
      starting_scene |-> k] :
        f \in FrameTimes, r \in {0, 2}, k \in {"Noise1D", "Noise2D"}}

(* the host of one noise scene under any frame time: rounds played with    *)
(* the left button and the space key; the record path is not writable      *)
FrameHost ==
    [max_time |-> MaxTime,
     menu_points |-> {}, click_points |-> {<<200, 135>>},
     escape |-> {FALSE}, released |-> {FALSE},
     left |-> BOOLEAN, right |-> {FALSE}, space |-> BOOLEAN,
     resolutions |-> Resolutions, origins |-> RandomVec2,
     io |-> {"mkdir_err"}]

FrameTick == Update(FrameHost)

InitFrame == Construct(FrameArgs, {NoFiles})

NextFrame == FrameTick

SpecFrame == InitFrame /\ [][NextFrame]_vars

(* the configurations of the recorded runs: with and without a ramp *)
RecordArgs ==
    {a \in Args : /\ a.starting_scene # "MainMenu"
                  /\ a.noise_floor = 1}

(* a row that an earlier run has recorded *)
PriorRow ==
    [distance |-> Rat(1, 4), time |-> 3, strength |-> Strength(Const(1), 1)]

(* what earlier runs under the configuration a have left: a 1D log of one  *)
(* row                                                                     *)
PriorDisk(a) ==
    [dirs |-> {GameName(OneDimensional)},
     files |-> [f \in {<<GameName(OneDimensional), Fingerprint(a)>>} |->
                   <<PriorRow>>]]

(* the host of one noise scene whose clicks are recorded: rounds played    *)
(* with the left button and the space key in a window of one size, over a  *)
(* file system that may fail at every step                                 *)
RecordHost ==
    [max_time |-> MaxRecordTime,
     menu_points |-> {}, click_points |-> {<<200, 135>>},
     escape |-> {FALSE}, released |-> {FALSE},
     left |-> BOOLEAN, right |-> {FALSE}, space |-> BOOLEAN,
     resolutions |-> {<<800, 600>>}, origins |-> RandomVec2,
     io |-> IoOutcomes]

RecordTick == Update(RecordHost)

InitRecord == \E a \in RecordArgs : Construct({a}, {NoFiles, PriorDisk(a)})

NextRecord == RecordTick

SpecRecord == InitRecord /\ [][NextRecord]_vars

(* the peak strengths the command line accepts, 0.0 among them *)
PeakStrengths == {0, 1}

PeakArgs ==
    {[noise_floor |-> 1, noise_deviation |-> 1, frame_time |-> 1,
      signal_ramp_duration |-> r, signal_max_strength |-> m,
      starting_scene |-> k] :
        r \in {0, 2}, m \in PeakStrengths, k \in {"Noise1D", "Noise2D"}}

(* rounds of one noise scene under any peak strength, on the host of the   *)
(* frame times                                                             *)
PeakTick == Update(FrameHost)

InitPeak == Construct(PeakArgs, {NoFiles})

NextPeak == PeakTick

SpecPeak == InitPeak /\ [][NextPeak]_vars

(* the host that draws: menu and noise scenes, switched by the buttons and *)
(* by Escape, rounds played with the left button and the space key, and a  *)
(* draw after every update                                                 *)
DrawHost ==
    [max_time |-> MaxMenuTime,
     menu_points |-> {<<400, 270>>, <<400, 330>>},
     click_points |-> {<<200, 135>>},
     escape |-> BOOLEAN, released |-> BOOLEAN,
     left |-> BOOLEAN, right |-> {FALSE}, space |-> BOOLEAN,
     resolutions |-> {<<800, 600>>}, origins |-> RandomVec2,
     io |-> {"mkdir_err"}]

DrawTick == Update(DrawHost)

DrawArgs == {a \in Args : a.noise_floor = 1 /\ a.noise_deviation = 1}

InitDraw == Construct(DrawArgs, {NoFiles})

NextDraw == DrawTick \/ Draw

SpecDraw == InitDraw /\ [][NextDraw]_vars

----------------------------------------------------------------------------
(* Vocabulary of the properties *)

(* the event that names the kind of a scene *)
KindOf(sc) ==
    IF sc.kind = "MainMenu" THEN "MainMenu"
    ELSE IF sc.mode = OneDimensional THEN "Noise1D" ELSE "Noise2D"

IsNoise(sc) == sc.kind = "Noise"
Resolved(sc) == IsNoise(sc) /\ sc.params.click_location.some
Searching(sc) == IsNoise(sc) /\ ~sc.params.click_location.some

(* the step is a call of update, and it has returned *)
Ticked ==
    /\ ~quit_result'.called /\ ~drawn'.called
    /\ result' # "None" /\ status = "running"

(* the step is a tick of one noise scene that stays the active scene *)
NoiseTicked == Ticked /\ IsNoise(scene) /\ IsNoise(scene') /\ scene'.id = scene.id

(* the events enqueued in the latest tick, in the order of the sends *)
tick_sent == tick_scene \o tick_mgr

IsPrefix(a, b) == Len(a) <= Len(b) /\ a = SubSeq(b, 1, Len(a))
IsSuffix(a, b) ==
    Len(a) <= Len(b) /\ a = SubSeq(b, Len(b) - Len(a) + 1, Len(b))

----------------------------------------------------------------------------
(* C1: after every SceneManager::update that returns Ok the event queue is *)
(* empty, and every event enqueued during that tick - by the scene's       *)
(* update or by the Escape check - has been passed to handle_event.        *)
C1_QueueDrained ==
    result = "Ok" => /\ queue = <<>>
                     /\ tick_handled = tick_sent

(* a tick that enqueued two events and returned Ok *)
C1_Witness == result = "Ok" /\ Len(tick_sent) = 2 /\ Len(tick_handled) = 2

(* C2, as claimed: every event sent on the channel is passed to            *)
(* handle_event exactly once and in the order sent; none is dropped.       *)
C2_EveryEventHandled == handled = sent

(* C2, amended: the events passed to handle_event are a prefix of the      *)
(* events sent, in the order sent, and the events not yet handled are      *)
(* exactly the ones left in the channel; when update returns Ok nothing is *)
(* left, and only a failed update leaves events behind, unhandled for      *)
(* good.                                                                   *)
C2_FifoUntilFailure ==
    /\ IsPrefix(handled, sent)
    /\ handled \o queue = sent
    /\ result = "Ok" => handled = sent
    /\ handled # sent => status = "failed"

(* events sent in more than one tick and all of them handled *)
C2_Witness == Len(sent) >= 2 /\ handled = sent /\ Len(tick_sent) < Len(sent)

(* C3: when every construction of a tick succeeds, the active scene after  *)
(* update is of the kind of the last event enqueued in the tick; with no   *)
(* event enqueued the active scene is the one before the tick.             *)
C3_LastEventWins ==
    [][(Ticked /\ result' = "Ok") =>
          IF tick_sent' = <<>>
          THEN KindOf(scene') = KindOf(scene) /\ scene'.id = scene.id
          ELSE KindOf(scene') = tick_sent'[Len(tick_sent')]]_vars

(* [Noise1D, MainMenu] enqueued in one tick: MainMenu is active, no error *)
C3_Witness ==
    /\ tick_scene = <<"Noise1D">> /\ tick_mgr = <<"MainMenu">>
    /\ result = "Ok" /\ scene.kind = "MainMenu"

(* C4: on a tick with the Escape edge the manager enqueues exactly one     *)
(* MainMenu event, behind whatever the scene's update enqueued, so the     *)
(* scene after an Ok update is MainMenu; on a tick without the edge the    *)
(* manager enqueues nothing.                                               *)
C4_EscapeToMenu ==
    result # "None" =>
        /\ tick_mgr = (IF input.escape THEN <<"MainMenu">> ELSE <<>>)
        /\ IsSuffix(tick_sent, sent)
        /\ (input.escape /\ result = "Ok") => scene.kind = "MainMenu"

(* Escape in the tick in which the menu's "2D Noise" button has fired *)
C4_Witness ==
    /\ input.escape /\ tick_scene = <<"Noise2D">>
    /\ tick_handled = <<"Noise2D", "MainMenu">>
    /\ scene.kind = "MainMenu"

(* C5: quit_event returns Ok(true), "do not quit", whenever Escape is      *)
(* held, whatever the active scene; otherwise it returns the scene's       *)
(* answer, which is Ok(false) for every scene.                             *)
C5_QuitInterception ==
    quit_result.called =>
        /\ quit_result.returned = quit_result.escape_pressed
        /\ (status = "quit") = ~quit_result.escape_pressed

(* quit asked with Escape held while a noise scene is active *)
C5_Witness ==
    quit_result.called /\ quit_result.escape_pressed /\ IsNoise(scene)

----------------------------------------------------------------------------
(* Properties of the noise scene *)

NoiseUniformsAre(sc, floor, deviation) ==
    /\ sc.uniforms.noise_floor = floor
    /\ sc.uniforms.noise_deviation = deviation

(* a coordinate in the normalized range [0, 1) *)
InUnit(c) == 0 <= c[1] /\ c[1] < c[2]

(* C6: click_location is Some exactly while the round is ended (a left     *)
(* click was registered, no reset since); while it is Some both noise      *)
(* uniforms are zero, and a tick that starts with it Some leaves           *)
(* noise_frame as it was.                                                  *)
C6_RoundInvariant ==
    /\ [](IsNoise(scene) =>
            /\ scene.params.click_location.some = round_ended
            /\ Resolved(scene) => NoiseUniformsAre(scene, 0, 0))
    /\ [][(NoiseTicked /\ Resolved(scene)) =>
              scene'.params.noise_frame = scene.params.noise_frame]_vars

(* a round ended after the first frame, under a nonzero configured noise *)
C6_Witness ==
    /\ Resolved(scene) /\ round_ended
    /\ scene.params.noise_frame > 0
    /\ args.noise_floor # 0 /\ args.noise_deviation # 0

(* C7, as claimed: for every configuration the noise uniforms equal the    *)
(* configured noise_floor and noise_deviation if and only if the state is  *)
(* Searching.                                                              *)
C7_ConfiguredIffSearching ==
    IsNoise(scene) =>
        (NoiseUniformsAre(scene, args.noise_floor, args.noise_deviation)
            <=> Searching(scene))

(* C7, amended: while Searching the noise uniforms equal the configured    *)
(* values and while Resolved both are zero; they equal the configured      *)
(* values if and only if Searching for every configuration but the one     *)
(* with noise_floor = noise_deviation = 0.                                 *)
C7_ConfiguredWhileSearching ==
    IsNoise(scene) =>
        /\ Searching(scene) =>
              NoiseUniformsAre(scene, args.noise_floor, args.noise_deviation)
        /\ Resolved(scene) => NoiseUniformsAre(scene, 0, 0)
        /\ (args.noise_floor # 0 \/ args.noise_deviation # 0) =>
              (NoiseUniformsAre(scene, args.noise_floor, args.noise_deviation)
                  <=> Searching(scene))

(* Searching again after a reset, the configured noise restored *)
C7_Witness ==
    /\ Searching(scene) /\ scene.params.start_time > 0
    /\ args.noise_floor # 0
    /\ scene.uniforms.noise_floor = args.noise_floor

(* C8: a tick that starts Searching with the left button just pressed ends *)
(* Resolved: the ClickDecision holds the pointer position divided by the   *)
(* resolution, the distance from it to signal_origin and the elapsed time  *)
(* of the round, and both noise uniforms are zero.                         *)
C8_ClickResolves ==
    [][(NoiseTicked /\ Searching(scene) /\ input'.left) =>
          /\ scene'.params.click_location =
                Some([location |-> VecDiv(input'.pos, input'.res),
                      distance |-> distance(VecDiv(input'.pos, input'.res),
                                            scene.params.signal_origin),
                      time |-> now' - scene.params.start_time])
          /\ scene'.params.signal_origin = scene.params.signal_origin
          /\ NoiseUniformsAre(scene', 0, 0)]_vars

(* a click away from the origin, some time into the round *)
C8_Witness ==
    /\ Resolved(scene) /\ input.left
    /\ scene.params.click_location.value.time > 0
    /\ scene.params.click_location.value.distance # RatZero
    /\ scene.params.click_location.value.location
            = VecDiv(input.pos, input.res)

(* C9: a tick that starts Resolved with space or the right button just     *)
(* pressed ends Searching: the ClickDecision is cleared, start_time is the *)
(* current time, signal_origin is newly drawn with both coordinates in     *)
(* [0, 1), and the noise uniforms hold the configured values again.        *)
C9_ResetReopens ==
    [][(NoiseTicked /\ Resolved(scene) /\ (input'.space \/ input'.right)) =>
          /\ scene'.params.click_location = None
          /\ scene'.params.start_time = now'
          /\ scene'.params.signal_origin = input'.rnd
          /\ InUnit(scene'.params.signal_origin.x)
          /\ InUnit(scene'.params.signal_origin.y)
          /\ NoiseUniformsAre(scene', args.noise_floor,
                              args.noise_deviation)]_vars

(* right after a reset that came some time into the previous round *)
C9_Witness ==
    /\ Searching(scene) /\ (input.space \/ input.right)
    /\ scene.params.start_time = now /\ scene.params.time > 0
    /\ scene.params.signal_origin = input.rnd

(* the progression a configuration without a ramp is to show *)
FullStrength == Const(1)

(* the frame AdvanceFrame computes at elapsed e with frame_length fl *)
FrameAt(params, e, fl) ==
    AdvanceFrame([params EXCEPT !.time = e, !.frame_length = fl,
                                !.noise_frame = 0]).noise_frame

(* C10: within one Searching state - from a construction or a reset to the *)
(* next click - noise_frame never decreases from one tick to the next.     *)
C10_FrameMonotone ==
    [][(NoiseTicked /\ Searching(scene) /\ Searching(scene')) =>
          scene'.params.noise_frame >= scene.params.noise_frame]_vars

(* C11: with signal_ramp_duration = 0, signal_progression is exactly 1.0   *)
(* after every tick that the scene runs in the Searching state, whatever   *)
(* the elapsed time, the ticks of the first frame window included.         *)
C11_RampZeroFullStrength ==
    [][(NoiseTicked /\ Searching(scene)
            /\ scene.params.signal_ramp_duration = 0) =>
          scene'.params.signal_progression = FullStrength]_vars

(* C12: after every tick that the scene runs in the Searching state,       *)
(* noise_frame is floor(elapsed / frame_length), the one integer n with    *)
(* n * frame_length <= elapsed < (n + 1) * frame_length, where elapsed is  *)
(* the current time less the start time of the round; with frame_length    *)
(* 100 ms it is 1 at 100 ms and 180 at 18000 ms.                           *)
C12_FrameIsFloor ==
    /\ [](IsNoise(scene) =>
            /\ FrameAt(scene.params, 100, 100) = 1
            /\ FrameAt(scene.params, 18000, 100) = 180
            /\ FrameAt(scene.params, 99, 100) = 0)
    /\ [][(NoiseTicked /\ Searching(scene)) =>
              LET elapsed == now' - scene.params.start_time
                  length == scene'.params.frame_length
                  frame == scene'.params.noise_frame
              IN  /\ frame * length <= elapsed
                  /\ elapsed < (frame + 1) * length
                  /\ scene'.params.time = elapsed]_vars

(* a tick in the second frame of a round that a reset has opened *)
C12_Witness ==
    /\ Searching(scene) /\ scene.params.start_time > 0
    /\ scene.params.time > 0 /\ scene.params.noise_frame = 1
    /\ ~(input.space \/ input.right)

(* C13: the distance a click stores is, in 1D mode, the absolute           *)
(* difference of the x coordinates of the click and of signal_origin in    *)
(* normalized space, whatever their y coordinates are, and in 2D mode the  *)
(* planar Euclidean distance (both held as their squares).                 *)
C13_DistanceByMode ==
    [][(NoiseTicked /\ Searching(scene) /\ input'.left) =>
          LET click == VecDiv(input'.pos, input'.res)
              origin == scene.params.signal_origin
              dx == RSub(click.x, origin.x)
              dy == RSub(click.y, origin.y)
          IN  scene'.params.click_location.value.distance =
                  IF scene.mode = OneDimensional
                  THEN RMul(dx, dx)
                  ELSE RAdd(RMul(dx, dx), RMul(dy, dy))]_vars

(* C14: the distance a click stores does not depend on the resolution: the *)
(* same tick with the pointer at the same normalized position under        *)
(* another drawable resolution stores the same distance, in 1D and in 2D   *)
(* mode.                                                                   *)
C14_ResolutionInvariant ==
    [][(NoiseTicked /\ Searching(scene) /\ input'.left) =>
          \A res \in Resolutions, pos \in ClickPoints :
              VecDiv(pos, res) = VecDiv(input'.pos, input'.res) =>
                  NoiseUpdate(scene, [input' EXCEPT !.pos = pos, !.res = res],
                              now').scene.params.click_location.value.distance
                      = scene'.params.click_location.value.distance]_vars

(* a 1D click off the origin at a position that another resolution also   *)
(* offers: (400, 270) of 800 x 600 is (200, 135) of 400 x 300              *)
C14_Witness ==
    /\ Resolved(scene) /\ input.left /\ scene.mode = OneDimensional
    /\ input.pos = <<400, 270>> /\ input.res = <<800, 600>>
    /\ VecDiv(<<200, 135>>, <<400, 300>>) = scene.params.click_location.value.location
    /\ scene.params.click_location.value.distance # RatZero

(* C15: a frame_length <= 0 is rejected or guarded when a noise scene is   *)
(* constructed: no tick of a noise scene evaluates                         *)
(* floor(elapsed / frame_length) with frame_length <= 0.                   *)
C15_FrameLengthGuarded ==
    [][(NoiseTicked /\ Searching(scene)) =>
          scene.params.frame_length > 0]_vars

C20_ConstructionFailureFatal ==
    [][(Ticked /\ tick_scene' # <<>> /\ ~input'.shader_ok) =>
          /\ result' = "Err" /\ status' = "failed"
          /\ scene' = scene
          /\ built' = built
          /\ tick_handled' = tick_scene'
          /\ queue' = tick_mgr'
          /\ handled' = handled \o tick_scene']_vars

(* the 1D button and Escape in one tick, and the shader does not build *)
C20_Witness ==
    /\ result = "Err" /\ status = "failed" /\ ~input.shader_ok
    /\ tick_scene = <<"Noise1D">> /\ tick_mgr = <<"MainMenu">>
    /\ queue = <<"MainMenu">> /\ scene.kind = "MainMenu"

(* C22: after every update tick of a noise scene the uniform record        *)
(* mirrors the GameParams: signal_origin, noise_seed = noise_frame and     *)
(* signal_strength = signal_progression * signal_max_strength, the tick    *)
(* that performs a reset included.                                         *)
C22_UniformsMirrorParams ==
    [][NoiseTicked =>
          /\ scene'.uniforms.signal_origin = scene'.params.signal_origin
          /\ scene'.uniforms.noise_seed = scene'.params.noise_frame
          /\ scene'.uniforms.signal_strength =
                Strength(scene'.params.signal_progression,
                         scene'.params.signal_max_strength)]_vars

(* C23: a tick that starts Resolved without space or the right button      *)
(* just pressed leaves the ClickDecision, signal_origin, start_time,       *)
(* noise_frame, signal_progression and every uniform but the resolution    *)
(* as they were, and records nothing, whether or not the left button is    *)
(* pressed again.                                                          *)
C23_ResolvedIsFrozen ==
    [][(NoiseTicked /\ Resolved(scene)
            /\ ~(input'.space \/ input'.right)) =>
          /\ scene'.params =
                [scene.params EXCEPT !.time = now' - scene.params.start_time]
          /\ scene'.uniforms =
                [scene.uniforms EXCEPT !.resolution = input'.res]
          /\ tick_records' = <<>>]_vars

(* a second left click, later and elsewhere, on a Resolved scene *)
C23_Witness ==
    /\ Resolved(scene) /\ input.left /\ tick_records = <<>>
    /\ scene.params.click_location.value.time < scene.params.time
    /\ scene.params.click_location.value.location
            # VecDiv(input.pos, input.res)

(* C24: MainMenu::update sends an event exactly when the left button is   *)
(* just released with the pointer inside an enabled button - 160 x 40      *)
(* pixels, centred horizontally, the first from 50 to 10 pixels above the  *)
(* centre of the window and the second from 10 to 50 pixels below it - and *)
(* the event is Noise2D for the first and Noise1D for the second; it never *)
(* sends MainMenu.                                                         *)
C24_MenuProducesSwitches ==
    [][(Ticked /\ scene.kind = "MainMenu") =>
          LET cx == input'.res[1] \div 2
              cy == input'.res[2] \div 2
              x == input'.pos[1]
              y == input'.pos[2]
              inside(top) == /\ cx - 80 <= x /\ x <= cx + 80
                             /\ cy + top <= y /\ y <= cy + top + 40
          IN  /\ tick_scene' =
                    (IF input'.released /\ inside(-50) THEN <<"Noise2D">>
                     ELSE IF input'.released /\ inside(10) THEN <<"Noise1D">>
                     ELSE <<>>)
              /\ \A i \in DOMAIN tick_scene' : tick_scene'[i] # "MainMenu"]_vars

(* a release on the second button of an 800 x 600 window opens the 1D     *)
(* scene                                                                  *)
C24_Witness ==
    /\ input.released /\ input.pos = <<400, 330>> /\ input.res = <<800, 600>>
    /\ tick_scene = <<"Noise1D">> /\ tick_mgr = <<>>
    /\ IsNoise(scene) /\ scene.mode = OneDimensional

(* C26: SceneManager::new makes the scene of the kind starting_scene       *)
(* names the active scene, and every noise scene, built by                 *)
(* SceneManager::new or by handle_event, starts Searching: click_location  *)
(* is None and the noise uniforms hold the configured noise_floor and      *)
(* noise_deviation.                                                        *)
C26_StartsSearching ==
    /\ [](result = "None" =>
            /\ KindOf(scene) = args.starting_scene
            /\ IsNoise(scene) =>
                  /\ Searching(scene)
                  /\ NoiseUniformsAre(scene, args.noise_floor,
                                      args.noise_deviation))
    /\ [][(Ticked /\ scene'.id # scene.id /\ IsNoise(scene')) =>
              /\ Searching(scene')
              /\ scene'.params.start_time = now'
              /\ NoiseUniformsAre(scene', args.noise_floor,
                                  args.noise_deviation)]_vars

(* a noise scene that handle_event has built from the menu, not yet       *)
(* updated, under a configured noise                                      *)
C26_Witness ==
    /\ args.starting_scene = "MainMenu" /\ args.noise_floor # 0
    /\ IsNoise(scene) /\ scene.id = 2 /\ tick_handled = <<KindOf(scene)>>
    /\ Searching(scene) /\ scene.uniforms.resolution = <<0, 0>>

(* C25: at every point after construction the manager owns exactly one    *)
(* live scene: the active one is the only scene instance that exists, and *)
(* of every scene that was replaced neither the instance nor its shader    *)
(* and uniform buffer remain.                                              *)
C25_OneLiveScene ==
    /\ live.scenes = {scene.id}
    /\ live.shaders = Gpu(scene)
    /\ Cardinality(live.scenes) = 1

(* a noise scene, a menu and a noise scene again: two scenes, one of them  *)
(* with a shader, have been replaced                                       *)
C25_Witness ==
    /\ built = 3 /\ IsNoise(scene) /\ args.starting_scene # "MainMenu"
    /\ live = [scenes |-> {3}, shaders |-> {3}]

(* a progression that is 0.0: the constant 0 and 1 - exp(-0) *)
ZeroProgression(p) == p[2] = 0

(* two products signal_progression * signal_max_strength of equal value *)
SameStrength(a, b) ==
    \/ a = b
    \/ /\ ZeroProgression(a[1]) \/ a[2] = 0
       /\ ZeroProgression(b[1]) \/ b[2] = 0

(* the progression the frame advance assigns for the stored frame index *)
ProgressionAt(params) ==
    AdvanceFrame([params EXCEPT
                    !.time = params.noise_frame * params.frame_length,
                    !.noise_frame = NaN]).signal_progression

(* C29: on a tick of the Searching state, the noise_seed and               *)
(* signal_strength uniforms change only if floor(elapsed / frame_length)   *)
(* differs from the stored noise_frame, and after the tick                 *)
(* signal_progression is the value that the frame index and the            *)
(* configuration determine, whatever the continuous elapsed time is.       *)
C29_StaticWithinFrame ==
    [][(NoiseTicked /\ Searching(scene)) =>
          LET elapsed == now' - scene.params.start_time
              frame == FloorDiv(elapsed, scene.params.frame_length)
          IN  /\ frame = scene.params.noise_frame =>
                    /\ scene'.uniforms.noise_seed = scene.uniforms.noise_seed
                    /\ SameStrength(scene'.uniforms.signal_strength,
                                    scene.uniforms.signal_strength)
              /\ scene'.params.noise_frame = frame
              /\ SameStrength(
                    Strength(scene'.params.signal_progression, 1),
                    Strength(ProgressionAt(scene'.params), 1))]_vars

(* two scenes a player cannot tell apart: equal but for the instance *)
SameScene(a, b) == [a EXCEPT !.id = 0] = [b EXCEPT !.id = 0]

(* what the tick from the current state would leave had the drain handled  *)
(* only the last event queued                                              *)
Coalesced ==
    handle_events_last(queue \o tick_sent',
                       SceneUpdate(scene, input', now').scene, <<>>,
                       [t |-> now', rnd |-> input'.rnd,
                        shader_ok |-> input'.shader_ok, built |-> built,
                        live |-> live])

(* C27, as claimed: for every queue content of a tick, handling only the   *)
(* last event queued yields the same active scene and the same result of   *)
(* update as handling every event in order.                                *)
C27_CoalescingEquivalent ==
    [][Ticked => /\ SameScene(Coalesced.scene, scene')
                 /\ Coalesced.result = result']_vars

(* C27, amended: handling only the last event queued yields the same       *)
(* active scene and the same result whenever the in-order drain returns    *)
(* Ok; the two differ only when the construction for an event before the   *)
(* last fails, where the in-order drain returns the error and the          *)
(* coalesced one returns Ok with the scene of the last event.              *)
C27_CoalescingEquivalentWhenOk ==
    [][Ticked =>
          /\ result' = "Ok" =>
                /\ SameScene(Coalesced.scene, scene')
                /\ Coalesced.result = "Ok"
          /\ (~SameScene(Coalesced.scene, scene')
                  \/ Coalesced.result # result') =>
                /\ result' = "Err" /\ ~input'.shader_ok
                /\ Len(tick_handled') < Len(tick_sent')
                /\ Coalesced.result = "Ok"
                /\ KindOf(Coalesced.scene) = tick_sent'[Len(tick_sent')]]_vars

(* the 2D button and Escape in one tick, both constructions succeed: the   *)
(* third scene built is the menu                                           *)
C27_Witness ==
    /\ tick_sent = <<"Noise2D", "MainMenu">> /\ result = "Ok"
    /\ input.shader_ok /\ scene = MainMenuNew(3)

----------------------------------------------------------------------------
(* Properties of the drawing *)

(* the whats of the items on a canvas, in the order drawn *)
RECURSIVE Whats(_)
Whats(items) ==
    IF items = <<>> THEN <<>>
    ELSE <<Head(items).what>> \o Whats(Tail(items))

(* the overlay of a Resolved scene: the indicator, then the readout *)
Overlay(sc) == Indicator(sc.mode) \o <<"readout">>

(* C21: whenever the draw of the shader scene has returned - the path on   *)
(* which building the full-screen rectangle fails included - the active    *)
(* shader of the canvas is not the scene's shader.                         *)
C21_ShaderRestored ==
    (drawn.called /\ IsNoise(scene)) => drawn.canvas.shader # "scene"

(* C28: a draw is performed by the scene that is active after the drain of *)
(* the preceding update: by the newly constructed scene after a switch,    *)
(* never by a scene that was replaced.                                     *)
C28_DrawsActiveScene ==
    drawn.called =>
        /\ drawn.by = scene.id
        /\ drawn.by \in live.scenes
        /\ (drawn.result = "Ok" /\ scene.kind = "MainMenu") =>
                Whats(drawn.canvas.items)
                    = <<"button", "label", "button", "label">>
        /\ (drawn.result = "Ok" /\ IsNoise(scene)) =>
                Whats(drawn.canvas.items)[1] = "rectangle"

(* a draw that follows a tick which has replaced a noise scene by the menu *)
C28_Witness ==
    /\ drawn.called /\ drawn.result = "Ok" /\ drawn.by = 2
    /\ tick_handled = <<"MainMenu">> /\ scene.kind = "MainMenu"
    /\ args.starting_scene # "MainMenu"

(* C30: every draw of the noise scene renders the shader scene first, the  *)
(* full-screen rectangle under the scene's shader; a draw that returns Ok  *)
(* has drawn after it the click indicator and the readout if the state is  *)
(* Resolved and nothing if it is Searching, and no draw of a Searching     *)
(* scene, failed or not, draws any part of the overlay.                    *)
C30_OverlayIffResolved ==
    (drawn.called /\ IsNoise(scene)) =>
        LET whats == Whats(drawn.canvas.items)
        IN  /\ drawn.result = "Ok" =>
                  /\ drawn.canvas.items[1]
                        = [what |-> "rectangle", shader |-> "scene"]
                  /\ whats = <<"rectangle">>
                        \o (IF Resolved(scene) THEN Overlay(scene) ELSE <<>>)
            /\ Searching(scene) => Len(whats) <= 1
            /\ IsPrefix(whats, <<"rectangle">> \o Overlay(scene))

(* an Ok draw of a Resolved 1D scene and its three lines *)
C30_Witness ==
    /\ drawn.called /\ drawn.result = "Ok" /\ Resolved(scene)
    /\ scene.mode = OneDimensional
    /\ Len(drawn.canvas.items) = 5

----------------------------------------------------------------------------
(* Properties of the recording *)

(* the path of the log a call of record writes to *)
PathOf(call) == <<call.game_name, call.configuration>>

(* C17: the noise scene calls record exactly once in a tick that takes it  *)
(* from Searching to Resolved - a tick that starts Searching with the left *)
(* button just pressed - and in no other tick, so that record is called    *)
(* once per registered click; the row carries the distance and the elapsed *)
(* time of that click and signal_progression * signal_max_strength, under  *)
(* the key of the mode and the configuration.                              *)
C17_OneRecordPerClick ==
    [][(Ticked /\ IsNoise(scene)) =>
          /\ (tick_records' # <<>>) <=> (Searching(scene) /\ Resolved(scene'))
          /\ (tick_records' # <<>>) <=> (Searching(scene) /\ input'.left)
          /\ (tick_records' # <<>>) =>
                tick_records' =
                    << [game_name |-> GameName(scene.mode),
                        configuration |-> Fingerprint(args),
                        row |-> [distance |->
                                    scene'.params.click_location.value.distance,
                                 time |-> now' - scene.params.start_time,
                                 strength |->
                                    Strength(scene'.params.signal_progression,
                                             args.signal_max_strength)]] >>]_vars

(* a click recorded one second into a round, the signal part-way up *)
C17_Witness ==
    /\ Resolved(scene) /\ Len(tick_records) = 1
    /\ tick_records[1].row.time = 1
    /\ tick_records[1].row.strength[1][1] = "inv_exp"
    /\ tick_records[1].row.distance = scene.params.click_location.value.distance

(* C18: a failure of the recorder's file operations does not interrupt the *)
(* game: record returns, update returns Ok, and the click tick leaves the  *)
(* scene Resolved with the ClickDecision of the click and both noise       *)
(* uniforms zero, whatever the file system answers.                        *)
C18_RecordFailureSwallowed ==
    [][(Ticked /\ Searching(scene) /\ input'.left) =>
          /\ result' = "Ok" /\ status' = "running"
          /\ scene'.params.click_location =
                Some([location |-> VecDiv(input'.pos, input'.res),
                      distance |-> distance(VecDiv(input'.pos, input'.res),
                                            scene.params.signal_origin),
                      time |-> now' - scene.params.start_time])
          /\ NoiseUniformsAre(scene', 0, 0)
          /\ input'.io # "ok" =>
                \A path \in DOMAIN fs'.files :
                    RowsAt(fs', path) = RowsAt(fs, path)]_vars

(* a click whose row could not be written *)
C18_Witness ==
    /\ Resolved(scene) /\ input.left /\ input.io = "write_err"
    /\ tick_records # <<>> /\ result = "Ok" /\ status = "running"

(* C19: no tick removes a log or a directory or changes a row written      *)
(* before; a record that succeeds leaves its log, created with its         *)
(* directory when absent, holding the rows it held, in order, followed by  *)
(* the new row, and leaves the logs under every other key as they were.    *)
C19_AppendOnly ==
    [][Ticked =>
          /\ fs.dirs \subseteq fs'.dirs
          /\ \A path \in DOMAIN fs.files :
                /\ path \in DOMAIN fs'.files
                /\ IsPrefix(fs.files[path], fs'.files[path])
          /\ (tick_records' # <<>> /\ input'.io = "ok") =>
                LET call == tick_records'[1]
                IN  /\ call.game_name \in fs'.dirs
                    /\ PathOf(call) \in DOMAIN fs'.files
                    /\ fs'.files[PathOf(call)]
                          = Append(RowsAt(fs, PathOf(call)), call.row)
                    /\ \A other \in DOMAIN fs'.files \ {PathOf(call)} :
                          /\ other \in DOMAIN fs.files
                          /\ fs'.files[other] = fs.files[other]]_vars

(* two different rows appended to a new 2D log in the order recorded,     *)
(* beside the 1D log of an earlier run                                    *)
C19_Witness ==
    LET own == <<GameName(TwoDimensional), Fingerprint(args)>>
        other == <<GameName(OneDimensional), Fingerprint(args)>>
    IN  /\ own \in DOMAIN fs.files /\ other \in DOMAIN fs.files
        /\ fs.files[other] = <<PriorRow>>
        /\ Len(fs.files[own]) = 2
        /\ fs.files[own][1] # fs.files[own][2]
        /\ tick_records # <<>> /\ input.io = "ok"
        /\ fs.files[own][2] = tick_records[1].row

(* the key of mode and configuration: the game name and the fingerprint *)
KeyOf(mode, a) == <<GameName(mode), Fingerprint(a)>>

(* C31: the key a click is recorded under is determined by the mode of the *)
(* scene and the configuration alone: every click of a run, whatever the   *)
(* round, the time and the signal origin, is recorded under the one key of *)
(* its mode and configuration, so that the run writes to no other log, and *)
(* the keys of a 1D and of a 2D scene of one configuration differ.         *)
C31_KeyOfModeAndConfiguration ==
    /\ [](\A a \in Args :
            KeyOf(OneDimensional, a) # KeyOf(TwoDimensional, a))
    /\ [](IsNoise(scene) =>
            DOMAIN fs.files \subseteq
                {KeyOf(scene.mode, args)} \cup DOMAIN PriorDisk(args).files)
    /\ [][(Ticked /\ IsNoise(scene)) =>
              \A i \in 1..Len(tick_records') :
                  PathOf(tick_records'[i]) = KeyOf(scene.mode, args)]_vars

(* two clicks of one run, at different times of their rounds, in one log *)
C31_Witness ==
    /\ IsNoise(scene) /\ tick_records # <<>>
    /\ LET rows == RowsAt(fs, KeyOf(scene.mode, args))
       IN  /\ Len(rows) = 2
           /\ rows[1].time # rows[2].time
           /\ rows[1] # PriorRow

(* C32: every scene has received an update before its first draw, the     *)
(* scenes that handle_event constructs during a tick as well as the        *)
(* initial one, so that the uniforms of a noise scene that is drawn carry  *)
(* the resolution of the current frame and the signal origin of the round. *)
C32_UpdatedBeforeDrawn ==
    drawn.called =>
        /\ updated
        /\ IsNoise(scene) =>
              /\ scene.uniforms.resolution = input.res
              /\ Searching(scene) =>
                    scene.uniforms.signal_origin = scene.params.signal_origin

(* the reveal state of a round that has just begun: frame 0, with the      *)
(* progression of a scene just constructed or the one the frame advance    *)
(* assigns for frame 0, and the uniforms that mirror them                  *)
FreshRound(sc) ==
    LET made == NoiseNew(sc.mode, 0, Vec2Zero, sc.id).params.signal_progression
        first == ProgressionAt([sc.params EXCEPT !.noise_frame = 0])
        Fresh(strength) ==
            \/ SameStrength(strength, Strength(made, 1))
            \/ SameStrength(strength, Strength(first, 1))
    IN  /\ sc.params.noise_frame = 0
        /\ Fresh(Strength(sc.params.signal_progression, 1))
        /\ sc.uniforms.noise_seed = 0
        /\ \/ Fresh(sc.uniforms.signal_strength)
           \/ sc.uniforms.signal_strength[2] = 0

(* C33: every round starts from the same reveal state: right after the     *)
(* construction and right after every tick that resets, noise_frame is 0   *)
(* and signal_progression, and with it the signal_strength uniform the     *)
(* next draw shows, is that of a fresh round, not the value the previous   *)
(* round has reached.                                                      *)
C33_RoundStartsFresh ==
    /\ []((IsNoise(scene) /\ result = "None") =>
            FreshRound(scene))
    /\ [][(NoiseTicked /\ Resolved(scene) /\ Searching(scene')) =>
              FreshRound(scene')]_vars

(* C34: under every configuration, one with signal_max_strength = 0 and   *)
(* signal_ramp_duration > 0 included, whenever the update evaluates the    *)
(* quotient of the progression - a tick of the Searching state that       *)
(* changes the frame under a ramp - the divisor signal_ramp_duration *     *)
(* signal_max_strength is not zero.                                        *)
C34_DivisorNonzero ==
    [][(NoiseTicked /\ Searching(scene)
            /\ scene.params.signal_ramp_duration > 0
            /\ scene'.params.noise_frame # scene.params.noise_frame) =>
          /\ scene'.params.signal_progression[1] = "inv_exp"
          /\ scene'.params.signal_progression[3] # 0
          /\ scene.params.signal_ramp_duration
                * scene.params.signal_max_strength # 0]_vars

(* C35: no round state survives a scene switch: every event handled       *)
(* constructs a new scene instance, also when it names the kind of the     *)
(* active scene (Escape in the menu builds a new menu), and a noise scene  *)
(* that is active after a switch is the scene Noise::new makes at the time *)
(* of the tick: Searching, click_location None, the signal origin just     *)
(* drawn, and start_time the time of the construction.                     *)
C35_SwitchBuildsAnew ==
    [][(Ticked /\ tick_handled' # <<>>) =>
          LET made == IF result' = "Ok" THEN Len(tick_handled')
                      ELSE Len(tick_handled') - 1
          IN  /\ built' = built + made
              /\ made > 0 =>
                    /\ scene'.id = built' /\ scene'.id # scene.id
                    /\ scene'.id \notin live.scenes
                    /\ ~round_ended'
                    /\ IsNoise(scene') =>
                          /\ scene' = NoiseNew(scene'.mode, now', input'.rnd,
                                               built')
                          /\ ~scene'.params.click_location.some
                          /\ scene'.params.signal_origin = input'.rnd
                          /\ scene'.params.start_time = now'
                          /\ scene'.params.time = 0]_vars

(* a noise scene entered from the menu one second after the scene the run  *)
(* started with was left, with an origin of its own                        *)
C35_Witness ==
    /\ built = 3 /\ Searching(scene) /\ args.starting_scene # "MainMenu"
    /\ scene.params.start_time = 1
    /\ scene.params.signal_origin = [x |-> Rat(1, 2), y |-> Rat(1, 2)]
    /\ tick_handled # <<>> /\ ~round_ended

(* C36: a noise scene's update enqueues nothing and the menu's at most    *)
(* one event, the two buttons never firing together, so that with the one  *)
(* event of Escape at most two events are queued in a tick; a noise scene  *)
(* is therefore left only for the menu, and a noise scene that becomes     *)
(* active was built while the menu was the active scene, unless it is the  *)
(* starting scene.                                                         *)
C36_AtMostTwoEvents ==
    /\ []((result = "None" /\ IsNoise(scene)) =>
            KindOf(scene) = args.starting_scene)
    /\ [][Ticked =>
              /\ Len(tick_scene') <= 1 /\ Len(tick_mgr') <= 1
              /\ Len(queue \o tick_sent') <= 2
              /\ IsNoise(scene) =>
                    /\ tick_scene' = <<>>
                    /\ \A i \in DOMAIN tick_handled' :
                          tick_handled'[i] = "MainMenu"
                    /\ scene'.id # scene.id => scene'.kind = "MainMenu"
              /\ (IsNoise(scene') /\ scene'.id # scene.id) =>
                    /\ scene.kind = "MainMenu"
                    /\ tick_handled' = tick_scene']_vars

(* the most a tick queues: the event of a button of a 400 x 300 window and *)
(* the event of Escape behind it                                           *)
C36_Witness ==
    /\ Len(tick_scene) = 1 /\ Len(tick_mgr) = 1 /\ Len(tick_handled) = 2
    /\ input.res = <<400, 300>> /\ input.pos = <<200, 135>>
    /\ args.starting_scene = "MainMenu"

(* C37: while Searching the reset triggers have no effect: a tick with the *)
(* space key or the right button just pressed leaves the scene as the same *)
(* tick without them does - signal_origin and start_time as they were,     *)
(* click_location None unless the left button is pressed too - and a tick  *)
(* with the left and the right button both just pressed ends Resolved, the *)
(* click registered and no reset made.                                     *)
C37_NoResetWhileSearching ==
    [][(NoiseTicked /\ Searching(scene) /\ (input'.space \/ input'.right)) =>
          /\ scene' = NoiseUpdate(scene, [input' EXCEPT !.space = FALSE,
                                                        !.right = FALSE],
                                  now').scene
          /\ scene'.params.signal_origin = scene.params.signal_origin
          /\ scene'.params.start_time = scene.params.start_time
          /\ ~input'.left => scene'.params.click_location = None
          /\ input'.left =>
                /\ Resolved(scene')
                /\ scene'.params.click_location.value.time
                        = now' - scene.params.start_time
                /\ Len(tick_records') = 1]_vars

(* both buttons just pressed one second into the first round, the random   *)
(* source holding an origin that is not the round's                        *)
C37_Witness ==
    /\ Resolved(scene) /\ input.left /\ input.right
    /\ scene.params.click_location.value.time = 1
    /\ scene.params.start_time = 0
    /\ input.rnd # scene.params.signal_origin

(* C38, as claimed: the drain of every tick ends, and the number of calls  *)
(* of handle_event in a tick equals the number of events queued before the *)
(* drain started.                                                          *)
C38_DrainHandlesAllQueued ==
    [][Ticked => Len(tick_handled') = Len(queue \o tick_sent')]_vars

(* C38, amended: the drain of every tick ends and handling an event never  *)
(* enqueues another: the events handled followed by the events left in the *)
(* channel are the events queued before the drain started; the number of   *)
(* calls of handle_event equals the number queued when update returns Ok,   *)
(* and when a construction fails it is the number queued up to the failing  *)
(* event, the events behind it staying in the channel.                      *)
C38_DrainHandlesQueuedUntilFailure ==
    [][Ticked =>
          /\ tick_handled' \o queue' = queue \o tick_sent'
          /\ Len(tick_handled') <= Len(queue \o tick_sent')
          /\ result' = "Ok" =>
                /\ Len(tick_handled') = Len(queue \o tick_sent')
                /\ queue' = <<>>
          /\ result' = "Err" =>
                /\ tick_handled' # <<>>
                /\ tick_handled'[Len(tick_handled')] # "MainMenu"
                /\ ~input'.shader_ok]_vars

(* the drain of the one event of Escape in a noise scene's tick *)
C38_Witness ==
    /\ result = "Ok" /\ tick_handled = <<"MainMenu">> /\ tick_scene = <<>>
    /\ queue = <<>> /\ built = 2 /\ args.starting_scene # "MainMenu"

(* C39: the channel is never disconnected while the manager exists: a     *)
(* sender and the receiver are held at every moment, no poll of the drain  *)
(* returns the disconnect error, and no send of the Escape shortcut or of  *)
(* the menu fails and panics.                                              *)
C39_ChannelConnected ==
    /\ Senders(scene) # {} /\ Receivers # {}
    /\ result \notin {"Disconnected", "Panic"}
    /\ poll_event(queue, Senders(scene)).ok
    /\ (scene.kind = "MainMenu") <=> (scene.id \in Senders(scene))

(* a noise scene entered from the menu has run a tick: the menu's clone of *)
(* the sender is gone, and the poll of the empty channel has found the     *)
(* manager's                                                               *)
C39_Witness ==
    /\ args.starting_scene = "MainMenu" /\ IsNoise(scene) /\ updated
    /\ result = "Ok" /\ queue = <<>> /\ tick_sent = <<>>
    /\ Senders(scene) = {0}

====
